---------------------------- MODULE Spec2Model ----------------------------
(***************************************************************************)
(* Model of ilattice's glam adapter (src/vector_impls/glam.rs): the        *)
(* lattice partial order on WithLatticeOrd<V>, meet/join, Bounded, Fold,   *)
(* CastInteger and the Morton conversions, for the seven glam vector       *)
(* types IVec2, IVec3, UVec2, UVec3, Vec2, Vec3, Vec3A.                    *)
(*                                                                         *)
(* Every operation is a pure function of its arguments.  The state is one  *)
(* call: the vector type, the arguments, the operation applied and its     *)
(* result.  Init draws the arguments from bounded sample sets; each action *)
(* applies one operation.                                                  *)
(*                                                                         *)
(* Scalars keep their width:                                               *)
(*   i32  an integer in I32_MIN..I32_MAX                                   *)
(*   u32  a pair <<hi, lo>> of 16-bit limbs, value hi * 2^16 + lo          *)
(*   f32  the IEEE-754 binary32 fields [s |-> sign, e |-> biased exponent, *)
(*        m |-> 23-bit mantissa]                                           *)
(***************************************************************************)
EXTENDS Integers, Sequences, FiniteSets

VARIABLES
    ty,     \* the vector type of the call
    a,      \* self
    b,      \* other (equal to a for unary operations)
    arg,    \* fold's further arguments [f, init]; NoArg otherwise
    op,     \* the operation applied, "init" before any
    out     \* its result, "none" before any

vars == <<ty, a, b, arg, op, out>>

---------------------------------------------------------------------------
(* Bounds of the model *)

\* how many i32 / u32 sample scalars the arguments are drawn from
MaxIntSamples == 4

\* how many f32 sample scalars the comparison and lattice arguments are drawn from
MaxFloatSamples == 6

---------------------------------------------------------------------------
(* Scalars *)

I32_MAX == 2147483647

I32_MIN == -I32_MAX - 1

U32_MIN == <<0, 0>>

U32_MAX == <<65535, 65535>>

F32(s, e, m) == [s |-> s, e |-> e, m |-> m]

F32_NAN == F32(0, 255, 4194304)

F32_INFINITY == F32(0, 255, 0)

F32_NEG_INFINITY == F32(1, 255, 0)

\* f32::MAX = 3.4028235e38, f32::MIN = -3.4028235e38
F32_MAX == F32(0, 254, 8388607)

F32_MIN == F32(1, 254, 8388607)

F32_ZERO == F32(0, 0, 0)

F32_NEG_ZERO == F32(1, 0, 0)

F32_ONE == F32(0, 127, 0)

IsNaN(f) == f.e = 255 /\ f.m # 0

\* The position of a non-NaN f32 on the number line: sign and magnitude of
\* its bit pattern.  -0.0 and +0.0 share position 0.
F32Ord(f) == IF f.s = 0 THEN f.e * (2^23) + f.m ELSE -(f.e * (2^23) + f.m)

\* Rust's scalar comparison operators, per scalar kind.
ScalarLt(k, p, q) ==
    CASE k = "i32" -> p < q
      [] k = "u32" -> p[1] < q[1] \/ (p[1] = q[1] /\ p[2] < q[2])
      [] k = "f32" -> ~IsNaN(p) /\ ~IsNaN(q) /\ F32Ord(p) < F32Ord(q)

ScalarEq(k, p, q) ==
    CASE k = "i32" -> p = q
      [] k = "u32" -> p = q
      [] k = "f32" -> ~IsNaN(p) /\ ~IsNaN(q) /\ F32Ord(p) = F32Ord(q)

ScalarGt(k, p, q) == ScalarLt(k, q, p)

ScalarLe(k, p, q) ==
    CASE k = "i32" -> p <= q
      [] k = "u32" -> p[1] < q[1] \/ (p[1] = q[1] /\ p[2] <= q[2])
      [] k = "f32" -> ~IsNaN(p) /\ ~IsNaN(q) /\ F32Ord(p) <= F32Ord(q)

ScalarGe(k, p, q) == ScalarLe(k, q, p)

---------------------------------------------------------------------------
(* Vector types *)

IntVec2Types == {"IVec2", "UVec2"}

IntVec3Types == {"IVec3", "UVec3"}

FloatVec2Types == {"Vec2"}

FloatVec3Types == {"Vec3", "Vec3A"}

IntTypes == IntVec2Types \cup IntVec3Types

FloatTypes == FloatVec2Types \cup FloatVec3Types

VecTypes == IntTypes \cup FloatTypes

Dim(t) == IF t \in IntVec2Types \cup FloatVec2Types THEN 2 ELSE 3

Kind(t) ==
    CASE t \in {"IVec2", "IVec3"} -> "i32"
      [] t \in {"UVec2", "UVec3"} -> "u32"
      [] t \in FloatTypes -> "f32"

Comps(t) == IF Dim(t) = 2 THEN {"x", "y"} ELSE {"x", "y", "z"}

Splat(t, v) == [c \in Comps(t) |-> v]

---------------------------------------------------------------------------
(* Sample arguments *)

I32Samples == <<I32_MIN, 0, I32_MAX, 1, -1>>

U32Samples == <<U32_MIN, <<0, 1>>, U32_MAX, <<1, 0>>, <<32768, 0>>>>

F32Samples ==
    <<F32_NAN, F32_NEG_INFINITY, F32_MIN, F32_NEG_ZERO, F32_ZERO,
      F32_MAX, F32_INFINITY, F32_ONE>>

Take(seq, n) == {seq[i] : i \in 1..(IF n < Len(seq) THEN n ELSE Len(seq))}

Scalars(k) ==
    CASE k = "i32" -> Take(I32Samples, MaxIntSamples)
      [] k = "u32" -> Take(U32Samples, MaxIntSamples)
      [] k = "f32" -> Take(F32Samples, MaxFloatSamples)

Vectors(t) == [Comps(t) -> Scalars(Kind(t))]

---------------------------------------------------------------------------
(* PartialOrd for WithLatticeOrd<$vec>: the four macros *)

\* impl_integer_vec2_with_lattice_partial_ord
IntegerVec2_lt(k, p, q) == ScalarLt(k, p.x, q.x) /\ ScalarLt(k, p.y, q.y)

IntegerVec2_gt(k, p, q) == ScalarGt(k, p.x, q.x) /\ ScalarGt(k, p.y, q.y)

\* mutant: le that forgets the y component
IntegerVec2_le_OnlyX(k, p, q) == ScalarLe(k, p.x, q.x)

IntegerVec2_le(k, p, q) == ScalarLe(k, p.x, q.x) /\ ScalarLe(k, p.y, q.y)

IntegerVec2_ge(k, p, q) == ScalarGe(k, p.x, q.x) /\ ScalarGe(k, p.y, q.y)

\* mutant: partial_cmp that tests <= and >= where the code tests < and >
IntegerVec2_partial_cmp_NonStrict(k, p, q) ==
    IF IntegerVec2_le(k, p, q) /\ ~IntegerVec2_ge(k, p, q) THEN "Less"
    ELSE IF IntegerVec2_ge(k, p, q) /\ ~IntegerVec2_le(k, p, q) THEN "Greater"
    ELSE IF ScalarEq(k, p.x, q.x) /\ ScalarEq(k, p.y, q.y) THEN "Equal"
    ELSE "None"

IntegerVec2_partial_cmp(k, p, q) ==
    IF IntegerVec2_lt(k, p, q) THEN "Less"
    ELSE IF IntegerVec2_gt(k, p, q) THEN "Greater"
    ELSE IF ScalarEq(k, p.x, q.x) /\ ScalarEq(k, p.y, q.y) THEN "Equal"
    ELSE "None"

\* impl_integer_vec3_with_lattice_partial_ord
IntegerVec3_lt(k, p, q) ==
    ScalarLt(k, p.x, q.x) /\ ScalarLt(k, p.y, q.y) /\ ScalarLt(k, p.z, q.z)

IntegerVec3_gt(k, p, q) ==
    ScalarGt(k, p.x, q.x) /\ ScalarGt(k, p.y, q.y) /\ ScalarGt(k, p.z, q.z)

IntegerVec3_le(k, p, q) ==
    ScalarLe(k, p.x, q.x) /\ ScalarLe(k, p.y, q.y) /\ ScalarLe(k, p.z, q.z)

IntegerVec3_ge(k, p, q) ==
    ScalarGe(k, p.x, q.x) /\ ScalarGe(k, p.y, q.y) /\ ScalarGe(k, p.z, q.z)

\* mutant: the equality test copied from the 2-component macro, z forgotten
IntegerVec3_partial_cmp_NoZ(k, p, q) ==
    IF IntegerVec3_lt(k, p, q) THEN "Less"
    ELSE IF IntegerVec3_gt(k, p, q) THEN "Greater"
    ELSE IF ScalarEq(k, p.x, q.x) /\ ScalarEq(k, p.y, q.y) THEN "Equal"
    ELSE "None"

IntegerVec3_partial_cmp(k, p, q) ==
    IF IntegerVec3_lt(k, p, q) THEN "Less"
    ELSE IF IntegerVec3_gt(k, p, q) THEN "Greater"
    ELSE IF ScalarEq(k, p.x, q.x) /\ ScalarEq(k, p.y, q.y) /\ ScalarEq(k, p.z, q.z)
         THEN "Equal"
    ELSE "None"

\* impl_float_vec2_with_lattice_partial_ord
FloatVec2_lt(k, p, q) == ScalarLt(k, p.x, q.x) /\ ScalarLt(k, p.y, q.y)

FloatVec2_gt(k, p, q) == ScalarGt(k, p.x, q.x) /\ ScalarGt(k, p.y, q.y)

FloatVec2_le(k, p, q) == ScalarLe(k, p.x, q.x) /\ ScalarLe(k, p.y, q.y)

FloatVec2_ge(k, p, q) == ScalarGe(k, p.x, q.x) /\ ScalarGe(k, p.y, q.y)

\* mutant: the integer macro's equality fallback used for a float vector
FloatVec2_partial_cmp_WithEqual(k, p, q) ==
    IF FloatVec2_lt(k, p, q) THEN "Less"
    ELSE IF FloatVec2_gt(k, p, q) THEN "Greater"
    ELSE IF ScalarEq(k, p.x, q.x) /\ ScalarEq(k, p.y, q.y) THEN "Equal"
    ELSE "None"

FloatVec2_partial_cmp(k, p, q) ==
    IF FloatVec2_lt(k, p, q) THEN "Less"
    ELSE IF FloatVec2_gt(k, p, q) THEN "Greater"
    ELSE "None"

\* impl_float_vec3_with_lattice_partial_ord
FloatVec3_lt(k, p, q) ==
    ScalarLt(k, p.x, q.x) /\ ScalarLt(k, p.y, q.y) /\ ScalarLt(k, p.z, q.z)

FloatVec3_gt(k, p, q) ==
    ScalarGt(k, p.x, q.x) /\ ScalarGt(k, p.y, q.y) /\ ScalarGt(k, p.z, q.z)

FloatVec3_le(k, p, q) ==
    ScalarLe(k, p.x, q.x) /\ ScalarLe(k, p.y, q.y) /\ ScalarLe(k, p.z, q.z)

\* mutant: ge copied from the 2-component macro, z forgotten
FloatVec3_ge_NoZ(k, p, q) == ScalarGe(k, p.x, q.x) /\ ScalarGe(k, p.y, q.y)

FloatVec3_ge(k, p, q) ==
    ScalarGe(k, p.x, q.x) /\ ScalarGe(k, p.y, q.y) /\ ScalarGe(k, p.z, q.z)

FloatVec3_partial_cmp(k, p, q) ==
    IF FloatVec3_lt(k, p, q) THEN "Less"
    ELSE IF FloatVec3_gt(k, p, q) THEN "Greater"
    ELSE "None"

\* The macro each type is instantiated with (the invocations at the end of
\* the file).
lt(t, p, q) ==
    CASE t \in IntVec2Types -> IntegerVec2_lt(Kind(t), p, q)
      [] t \in IntVec3Types -> IntegerVec3_lt(Kind(t), p, q)
      [] t \in FloatVec2Types -> FloatVec2_lt(Kind(t), p, q)
      [] t \in FloatVec3Types -> FloatVec3_lt(Kind(t), p, q)

gt(t, p, q) ==
    CASE t \in IntVec2Types -> IntegerVec2_gt(Kind(t), p, q)
      [] t \in IntVec3Types -> IntegerVec3_gt(Kind(t), p, q)
      [] t \in FloatVec2Types -> FloatVec2_gt(Kind(t), p, q)
      [] t \in FloatVec3Types -> FloatVec3_gt(Kind(t), p, q)

le(t, p, q) ==
    CASE t \in IntVec2Types -> IntegerVec2_le(Kind(t), p, q)
      [] t \in IntVec3Types -> IntegerVec3_le(Kind(t), p, q)
      [] t \in FloatVec2Types -> FloatVec2_le(Kind(t), p, q)
      [] t \in FloatVec3Types -> FloatVec3_le(Kind(t), p, q)

ge(t, p, q) ==
    CASE t \in IntVec2Types -> IntegerVec2_ge(Kind(t), p, q)
      [] t \in IntVec3Types -> IntegerVec3_ge(Kind(t), p, q)
      [] t \in FloatVec2Types -> FloatVec2_ge(Kind(t), p, q)
      [] t \in FloatVec3Types -> FloatVec3_ge(Kind(t), p, q)

partial_cmp(t, p, q) ==
    CASE t \in IntVec2Types -> IntegerVec2_partial_cmp(Kind(t), p, q)
      [] t \in IntVec3Types -> IntegerVec3_partial_cmp(Kind(t), p, q)
      [] t \in FloatVec2Types -> FloatVec2_partial_cmp(Kind(t), p, q)
      [] t \in FloatVec3Types -> FloatVec3_partial_cmp(Kind(t), p, q)

---------------------------------------------------------------------------
(* The comparison calls *)

NoArg == [f |-> "none", init |-> <<>>]

InitPair ==
    /\ ty \in VecTypes
    /\ a \in Vectors(ty)
    /\ b \in Vectors(ty)
    /\ arg = NoArg
    /\ op = "init"
    /\ out = "none"

CallLt ==
    /\ op = "init"
    /\ op' = "lt"
    /\ out' = lt(ty, a, b)
    /\ UNCHANGED <<ty, a, b, arg>>

CallGt ==
    /\ op = "init"
    /\ op' = "gt"
    /\ out' = gt(ty, a, b)
    /\ UNCHANGED <<ty, a, b, arg>>

CallLe ==
    /\ op = "init"
    /\ op' = "le"
    /\ out' = le(ty, a, b)
    /\ UNCHANGED <<ty, a, b, arg>>

CallGe ==
    /\ op = "init"
    /\ op' = "ge"
    /\ out' = ge(ty, a, b)
    /\ UNCHANGED <<ty, a, b, arg>>

CallPartialCmp ==
    /\ op = "init"
    /\ op' = "partial_cmp"
    /\ out' = partial_cmp(ty, a, b)
    /\ UNCHANGED <<ty, a, b, arg>>

NextOrd == CallLt \/ CallGt \/ CallLe \/ CallGe \/ CallPartialCmp

SpecOrd == InitPair /\ [][NextOrd]_vars

---------------------------------------------------------------------------
(* Claims about the comparison calls, checked under SpecOrd *)

AllLt == \A c \in Comps(ty) : ScalarLt(Kind(ty), a[c], b[c])

AllGt == \A c \in Comps(ty) : ScalarGt(Kind(ty), a[c], b[c])

AllLe == \A c \in Comps(ty) : ScalarLe(Kind(ty), a[c], b[c])

AllGe == \A c \in Comps(ty) : ScalarGe(Kind(ty), a[c], b[c])

AllEq == \A c \in Comps(ty) : ScalarEq(Kind(ty), a[c], b[c])

\* C1: for the integer vector types, partial_cmp(a, b) is Less when every
\* component of a is < that of b, Greater when every component is >, and
\* otherwise Equal exactly when all components are equal and None in every
\* other case.
C1_IntegerPartialCmp ==
    (op = "partial_cmp" /\ ty \in IntTypes) =>
        /\ AllLt => out = "Less"
        /\ (~AllLt /\ AllGt) => out = "Greater"
        /\ (~AllLt /\ ~AllGt /\ AllEq) => out = "Equal"
        /\ (~AllLt /\ ~AllGt /\ ~AllEq) => out = "None"

\* C1 witness: an integer 3-vector compared with one equal to it in every
\* component, answered Equal.
C1_Witness ==
    /\ op = "partial_cmp"
    /\ ty \in IntVec3Types
    /\ AllEq
    /\ out = "Equal"

\* C2: for the float vector types, partial_cmp(a, b) is never Equal: it is
\* Less when every component is <, Greater when every component is >, and
\* None whenever neither holds, also when all components are equal.
C2_FloatPartialCmp ==
    (op = "partial_cmp" /\ ty \in FloatTypes) =>
        /\ out # "Equal"
        /\ AllLt => out = "Less"
        /\ (~AllLt /\ AllGt) => out = "Greater"
        /\ (~AllLt /\ ~AllGt) => out = "None"

\* C2 witness: a float vector compared with one equal to it in every
\* component, answered None.
C2_Witness ==
    /\ op = "partial_cmp"
    /\ ty \in FloatTypes
    /\ AllEq
    /\ out = "None"

\* C3: lt (gt, le, ge) is true iff every component of a is < (>, <=, >=)
\* the corresponding component of b.
C3_Componentwise ==
    /\ op = "lt" => (out <=> AllLt)
    /\ op = "gt" => (out <=> AllGt)
    /\ op = "le" => (out <=> AllLe)
    /\ op = "ge" => (out <=> AllGe)

\* C3 witness: ge on a 3-vector is false because z alone fails the relation.
C3_Witness ==
    /\ op = "ge"
    /\ Dim(ty) = 3
    /\ ScalarGe(Kind(ty), a.x, b.x)
    /\ ScalarGe(Kind(ty), a.y, b.y)
    /\ ~ScalarGe(Kind(ty), a.z, b.z)
    /\ out = FALSE

\* C6: the lattice order is antisymmetric: when le(a, b) and le(b, a) both
\* hold, a and b are equal in every component.
C6_Antisymmetric ==
    (op = "le" /\ out = TRUE /\ le(ty, b, a)) => AllEq

\* C6 witness: le holds both ways between two vectors that are not the same
\* bit pattern (a component -0.0 against +0.0) and yet equal under ==.
C6_Witness ==
    /\ op = "le"
    /\ out = TRUE
    /\ le(ty, b, a)
    /\ a # b

\* C10: for the integer vector types, partial_cmp in {Less, Equal} implies
\* le and partial_cmp in {Greater, Equal} implies ge; the converse fails: a
\* pair with every component <=, one equal and another strictly less, has
\* le true and partial_cmp None.
C10_OneWayConsistent ==
    (op = "partial_cmp" /\ ty \in IntTypes) =>
        /\ out \in {"Less", "Equal"} => le(ty, a, b)
        /\ out \in {"Greater", "Equal"} => ge(ty, a, b)
        /\ ( /\ AllLe
             /\ \E c \in Comps(ty) : ScalarEq(Kind(ty), a[c], b[c])
             /\ \E c \in Comps(ty) : ScalarLt(Kind(ty), a[c], b[c]) )
           => (le(ty, a, b) /\ out = "None")

\* C10 witness: an integer pair with le(a, b) true and partial_cmp None.
C10_Witness ==
    /\ op = "partial_cmp"
    /\ ty \in IntTypes
    /\ le(ty, a, b)
    /\ out = "None"

---------------------------------------------------------------------------
(* LatticeOrder and Bounded *)

\* glam computes min and max lane by lane.  What a lane holds when an
\* operand is NaN, or when the operands are -0.0 and +0.0, depends on the
\* build: the scalar types (Vec2, Vec3, and Vec3A without SIMD) use
\* f32::max / f32::min, which return the operand that is not NaN and either
\* zero; Vec3A on SSE2 uses _mm_max_ps / _mm_min_ps, which return the second
\* operand unless the first is strictly greater / less.
Builds(t) == IF t = "Vec3A" THEN {"scalar", "sse2"} ELSE {"scalar"}

LaneMax(k, build, p, q) ==
    CASE k \in {"i32", "u32"} -> {IF ScalarLt(k, p, q) THEN q ELSE p}
      [] k = "f32" /\ build = "scalar" ->
            IF IsNaN(p) THEN {q}
            ELSE IF IsNaN(q) THEN {p}
            ELSE IF ScalarLt(k, p, q) THEN {q}
            ELSE IF ScalarLt(k, q, p) THEN {p}
            ELSE {p, q}
      [] k = "f32" /\ build = "sse2" -> {IF ScalarGt(k, p, q) THEN p ELSE q}

LaneMin(k, build, p, q) ==
    CASE k \in {"i32", "u32"} -> {IF ScalarLt(k, q, p) THEN q ELSE p}
      [] k = "f32" /\ build = "scalar" ->
            IF IsNaN(p) THEN {q}
            ELSE IF IsNaN(q) THEN {p}
            ELSE IF ScalarLt(k, p, q) THEN {p}
            ELSE IF ScalarLt(k, q, p) THEN {q}
            ELSE {p, q}
      [] k = "f32" /\ build = "sse2" -> {IF ScalarLt(k, p, q) THEN p ELSE q}

\* the vectors whose lanes are drawn from the given per-lane results
FromLanes(t, lanes) ==
    IF Dim(t) = 2
    THEN {[x |-> vx, y |-> vy] : vx \in lanes.x, vy \in lanes.y}
    ELSE {[x |-> vx, y |-> vy, z |-> vz] :
              vx \in lanes.x, vy \in lanes.y, vz \in lanes.z}

\* $vec::max(self, other) and $vec::min(self, other): the results the build
\* can produce.
VecMax(t, p, q) ==
    UNION { FromLanes(t, [c \in Comps(t) |-> LaneMax(Kind(t), build, p[c], q[c])])
            : build \in Builds(t) }

VecMin(t, p, q) ==
    UNION { FromLanes(t, [c \in Comps(t) |-> LaneMin(Kind(t), build, p[c], q[c])])
            : build \in Builds(t) }

\* mutant: least_upper_bound calling min
least_upper_bound_AsMin(t, p, q) == VecMin(t, p, q)

least_upper_bound(t, p, q) == VecMax(t, p, q)

greatest_lower_bound(t, p, q) == VecMin(t, p, q)

ScalarMIN(k) ==
    CASE k = "i32" -> I32_MIN
      [] k = "u32" -> U32_MIN
      [] k = "f32" -> F32_MIN

ScalarMAX(k) ==
    CASE k = "i32" -> I32_MAX
      [] k = "u32" -> U32_MAX
      [] k = "f32" -> F32_MAX

Bounded_MIN(t) == Splat(t, ScalarMIN(Kind(t)))

Bounded_MAX(t) == Splat(t, ScalarMAX(Kind(t)))

CallLeastUpperBound ==
    /\ op = "init"
    /\ op' = "least_upper_bound"
    /\ out' \in least_upper_bound(ty, a, b)
    /\ UNCHANGED <<ty, a, b, arg>>

CallGreatestLowerBound ==
    /\ op = "init"
    /\ op' = "greatest_lower_bound"
    /\ out' \in greatest_lower_bound(ty, a, b)
    /\ UNCHANGED <<ty, a, b, arg>>

NextLattice == CallLeastUpperBound \/ CallGreatestLowerBound

SpecLattice == InitPair /\ [][NextLattice]_vars

---------------------------------------------------------------------------
(* Claims about meet and join, checked under SpecLattice *)

NoNaN == \A c \in Comps(ty) : ScalarEq(Kind(ty), a[c], a[c]) /\ ScalarEq(Kind(ty), b[c], b[c])

UpperBoundOfBoth ==
    \A c \in Comps(ty) :
        /\ ScalarGe(Kind(ty), out[c], a[c])
        /\ ScalarGe(Kind(ty), out[c], b[c])

LowerBoundOfBoth ==
    \A c \in Comps(ty) :
        /\ ScalarLe(Kind(ty), out[c], a[c])
        /\ ScalarLe(Kind(ty), out[c], b[c])

TakenLaneByLane == \A c \in Comps(ty) : out[c] \in {a[c], b[c]}

\* C4 as stated: for all vectors a and b, least_upper_bound(a, b) is the
\* component-wise maximum and is >= a and >= b in every component, and
\* greatest_lower_bound(a, b) is the component-wise minimum and is <= a and
\* <= b in every component.
C4_Original ==
    /\ op = "least_upper_bound" => (TakenLaneByLane /\ UpperBoundOfBoth)
    /\ op = "greatest_lower_bound" => (TakenLaneByLane /\ LowerBoundOfBoth)

\* C4 amended: the same for all vectors a and b none of whose components is
\* NaN (every integer vector, and every float vector without NaN).
C4_BoundsWithoutNaN ==
    NoNaN =>
        /\ op = "least_upper_bound" => (TakenLaneByLane /\ UpperBoundOfBoth)
        /\ op = "greatest_lower_bound" => (TakenLaneByLane /\ LowerBoundOfBoth)

\* C4 witness: the join of two float vectors that the partial order does
\* not compare, neither holding a NaN, is defined and is neither of them.
C4_Witness ==
    /\ op = "least_upper_bound"
    /\ ty \in FloatTypes
    /\ NoNaN
    /\ partial_cmp(ty, a, b) = "None"
    /\ ~le(ty, a, b) /\ ~ge(ty, a, b)
    /\ out # a /\ out # b
    /\ UpperBoundOfBoth

VecEq(t, p, q) == \A c \in Comps(t) : ScalarEq(Kind(t), p[c], q[c])

\* C5: MIN and MAX are absorbing: for every vector v,
\* greatest_lower_bound(v, MIN) == MIN and least_upper_bound(v, MAX) == MAX.
C5_BoundedAbsorbing ==
    /\ (op = "greatest_lower_bound" /\ b = Bounded_MIN(ty))
           => VecEq(ty, out, Bounded_MIN(ty))
    /\ (op = "least_upper_bound" /\ b = Bounded_MAX(ty))
           => VecEq(ty, out, Bounded_MAX(ty))

---------------------------------------------------------------------------
(* Fold *)

\* how many sample scalars fold's vectors are drawn from
MaxFoldSamples == 3

FoldI32Samples == <<1, 2, 3, -1, 0>>

FoldU32Samples == <<<<0, 1>>, <<0, 2>>, <<0, 3>>, <<1, 0>>, <<0, 0>>>>

\* 1.0, 2.0, 3.0, -1.0, 0.0
FoldF32Samples ==
    <<F32_ONE, F32(0, 128, 0), F32(0, 128, 4194304), F32(1, 127, 0), F32_ZERO>>

FoldScalars(k) ==
    CASE k = "i32" -> Take(FoldI32Samples, MaxFoldSamples)
      [] k = "u32" -> Take(FoldU32Samples, MaxFoldSamples)
      [] k = "f32" -> Take(FoldF32Samples, MaxFoldSamples)

\* The closures handed to fold: "push" appends the component to a list,
\* "add" is |c, acc| acc + c and "sub" is |c, acc| c - acc on i32.
CallFn(f, c, acc) ==
    CASE f = "push" -> Append(acc, c)
      [] f = "add" -> acc + c
      [] f = "sub" -> c - acc

FoldArgs(t) ==
    {[f |-> "push", init |-> <<>>]}
        \cup (IF Kind(t) = "i32"
              THEN {[f |-> g, init |-> i] : g \in {"add", "sub"}, i \in {0, 1}}
              ELSE {})

\* impl_vec2: Fold::fold
Vec2_fold(v, init, f) ==
    LET out0 == init
        out1 == CallFn(f, v.x, out0)
        out2 == CallFn(f, v.y, out1)
    IN  out2

\* mutant: the components visited in the order x, z, y
Vec3_fold_XZY(v, init, f) ==
    LET out0 == init
        out1 == CallFn(f, v.x, out0)
        out2 == CallFn(f, v.z, out1)
        out3 == CallFn(f, v.y, out2)
    IN  out3

\* impl_vec3: Fold::fold
Vec3_fold(v, init, f) ==
    LET out0 == init
        out1 == CallFn(f, v.x, out0)
        out2 == CallFn(f, v.y, out1)
        out3 == CallFn(f, v.z, out2)
    IN  out3

fold(t, v, init, f) ==
    IF Dim(t) = 2 THEN Vec2_fold(v, init, f) ELSE Vec3_fold(v, init, f)

InitFold ==
    /\ ty \in VecTypes
    /\ a \in [Comps(ty) -> FoldScalars(Kind(ty))]
    /\ b = a
    /\ arg \in FoldArgs(ty)
    /\ op = "init"
    /\ out = "none"

CallFold ==
    /\ op = "init"
    /\ arg.f # "none"
    /\ op' = "fold"
    /\ out' = fold(ty, a, arg.init, arg.f)
    /\ UNCHANGED <<ty, a, b, arg>>

NextFold == CallFold

SpecFold == InitFold /\ [][NextFold]_vars

\* C8: fold(init, f) applies f to x, then y, then (3 components) z,
\* threading the accumulator: the result is f(z, f(y, f(x, init))), or
\* f(y, f(x, init)) for 2 components, for non-commutative f too; the list
\* "push" builds holds the components in the order x, y, z.
C8_FoldOrder ==
    op = "fold" =>
        /\ Dim(ty) = 2 =>
              out = CallFn(arg.f, a.y, CallFn(arg.f, a.x, arg.init))
        /\ Dim(ty) = 3 =>
              out = CallFn(arg.f, a.z, CallFn(arg.f, a.y, CallFn(arg.f, a.x, arg.init)))
        /\ (arg.f = "push" /\ Dim(ty) = 2) => out = <<a.x, a.y>>
        /\ (arg.f = "push" /\ Dim(ty) = 3) => out = <<a.x, a.y, a.z>>
        /\ (arg.f = "add" /\ arg.init = 0 /\ a = [x |-> 1, y |-> 2, z |-> 3])
              => out = 6
        /\ (arg.f = "sub" /\ Dim(ty) = 3) => out = a.z - (a.y - (a.x - arg.init))

\* C8 witness: a non-commutative fold over (1, 2, 3) whose result differs
\* from that of the order x, z, y.
C8_Witness ==
    /\ op = "fold"
    /\ ty = "IVec3"
    /\ arg = [f |-> "sub", init |-> 0]
    /\ a = [x |-> 1, y |-> 2, z |-> 3]
    /\ out = 2
    /\ out # a.y - (a.z - (a.x - arg.init))

---------------------------------------------------------------------------
(* CastInteger *)

\* how many f32 sample scalars cast_int's vectors are drawn from
MaxCastSamples == 9

\* 1.9, -1.9, NaN, 1e30, -1e30, 2147483520.0 (the largest f32 below 2^31),
\* -2147483648.0, 2147483648.0, -0.5, +inf, 8388609.0, -inf, -0.0
CastSamples ==
    <<F32(0, 127, 7549747), F32(1, 127, 7549747), F32_NAN,
      F32(0, 226, 4846282), F32(1, 226, 4846282), F32(0, 157, 8388607),
      F32(1, 158, 0), F32(0, 158, 0), F32(1, 126, 0), F32_INFINITY,
      F32(0, 150, 1), F32_NEG_INFINITY, F32_NEG_ZERO>>

\* mutant: the cvttss2si result ("integer indefinite", i32::MIN) for NaN
\* and for every value out of range
F32AsI32_Indefinite(f) ==
    IF IsNaN(f) \/ f.e - 127 >= 31 THEN I32_MIN
    ELSE IF f.e < 127 THEN 0
    ELSE LET mag == IF f.e - 127 >= 23
                    THEN (2^23 + f.m) * 2^(f.e - 150)
                    ELSE (2^23 + f.m) \div 2^(150 - f.e)
         IN  IF f.s = 0 THEN mag ELSE -mag

\* `x as i32` for x: f32
F32AsI32(f) ==
    IF IsNaN(f) THEN 0
    ELSE IF f.e < 127 THEN 0
    ELSE IF f.e - 127 >= 31 THEN (IF f.s = 0 THEN I32_MAX ELSE I32_MIN)
    ELSE LET mag == IF f.e - 127 >= 23
                    THEN (2^23 + f.m) * 2^(f.e - 150)
                    ELSE (2^23 + f.m) \div 2^(150 - f.e)
         IN  IF f.s = 0 THEN mag ELSE -mag

\* impl_float_vec2: CastInteger::cast_int
FloatVec2_cast_int(v) == [x |-> F32AsI32(v.x), y |-> F32AsI32(v.y)]

\* impl_float_vec3: CastInteger::cast_int
FloatVec3_cast_int(v) ==
    [x |-> F32AsI32(v.x), y |-> F32AsI32(v.y), z |-> F32AsI32(v.z)]

cast_int(t, v) ==
    IF t \in FloatVec2Types THEN FloatVec2_cast_int(v) ELSE FloatVec3_cast_int(v)

InitCast ==
    /\ ty \in FloatTypes
    /\ a \in [Comps(ty) -> Take(CastSamples, MaxCastSamples)]
    /\ b = a
    /\ arg = NoArg
    /\ op = "init"
    /\ out = "none"

CallCastInt ==
    /\ op = "init"
    /\ ty \in FloatTypes
    /\ op' = "cast_int"
    /\ out' = cast_int(ty, a)
    /\ UNCHANGED <<ty, a, b, arg>>

NextCast == CallCastInt

SpecCast == InitCast /\ [][NextCast]_vars

\* 2147483648.0 and -2147483648.0: the f32 values above i32::MAX are those
\* >= 2^31, the ones below i32::MIN those < -2^31
F32_2P31 == F32(0, 158, 0)

F32_NEG_2P31 == F32(1, 158, 0)

\* r is x truncated toward zero, for x = (2^23 + m) * 2^(e - 150) in range
TruncatedTowardZero(x, r) ==
    LET M == 2^23 + x.m
        mag == IF x.s = 0 THEN r ELSE -r
    IN  /\ r # I32_MIN
        /\ 0 <= mag
        /\ IF x.e < 127 THEN mag = 0
           ELSE IF x.e >= 150
                THEN mag % 2^(x.e - 150) = 0 /\ mag \div 2^(x.e - 150) = M
                ELSE /\ mag <= 2^24
                     /\ mag * 2^(150 - x.e) <= M
                     /\ M < (mag + 1) * 2^(150 - x.e)

\* C9: cast_int converts component by component, in order: NaN becomes 0, a
\* component above i32::MAX becomes i32::MAX, one below i32::MIN becomes
\* i32::MIN, every other one is truncated toward zero; (1.9, -1.9) gives
\* (1, -1) and (NaN, 1e30) gives (0, i32::MAX).
C9_CastInt ==
    op = "cast_int" =>
        /\ DOMAIN out = Comps(ty)
        /\ \A c \in Comps(ty) :
              IF IsNaN(a[c]) THEN out[c] = 0
              ELSE IF ScalarGe("f32", a[c], F32_2P31) THEN out[c] = I32_MAX
              ELSE IF ScalarLt("f32", a[c], F32_NEG_2P31) THEN out[c] = I32_MIN
              ELSE IF a[c] = F32_NEG_2P31 THEN out[c] = I32_MIN
              ELSE TruncatedTowardZero(a[c], out[c])
        /\ a = [x |-> CastSamples[1], y |-> CastSamples[2]]
              => out = [x |-> 1, y |-> -1]
        /\ a = [x |-> F32_NAN, y |-> CastSamples[4]]
              => out = [x |-> 0, y |-> I32_MAX]

\* C9 witness: (NaN, 1e30) cast to (0, i32::MAX).
C9_Witness ==
    /\ op = "cast_int"
    /\ ty = "Vec2"
    /\ a = [x |-> F32_NAN, y |-> F32(0, 226, 4846282)]
    /\ out = [x |-> 0, y |-> I32_MAX]

---------------------------------------------------------------------------
(* Morton conversions *)

\* the width of i32 and of u32
ScalarBits == 32

\* The codec itself (crate::morton) works on arrays.  A Morton2* code is 64
\* bits wide and a Morton3* code 128, so every axis has room for all 32
\* bits of its component.
MortonBits(d) == IF d = 2 THEN 64 ELSE 128

\* The order-preserving bias of a signed component: v - i32::MIN as a u32.
BiasI32(v) ==
    IF v >= 0
    THEN <<32768 + (v \div 65536), v % 65536>>
    ELSE <<(v - I32_MIN) \div 65536, (v - I32_MIN) % 65536>>

UnbiasI32(u) ==
    IF u[1] >= 32768
    THEN (u[1] - 32768) * 65536 + u[2]
    ELSE (u[1] * 65536 + u[2]) + I32_MIN

\* bit i of a u32, bit 0 the least significant
U32Bit(u, i) ==
    IF i < 16 THEN (u[2] \div 2^i) % 2 ELSE (u[1] \div 2^(i - 16)) % 2

RECURSIVE LimbFromBits(_, _, _)
\* the 16-bit limb whose bit j is bit(from + j), for j < n
LimbFromBits(bit, from, n) ==
    IF n = 0 THEN 0
    ELSE bit[from + n - 1] * 2^(n - 1) + LimbFromBits(bit, from, n - 1)

\* encode: bit j of axis k goes to bit j * d + k of the code
MortonFromArray(k, arr) ==
    LET d == Len(arr)
        u(i) == IF k = "i32" THEN BiasI32(arr[i]) ELSE arr[i]
    IN  [i \in 0..(MortonBits(d) - 1) |->
            IF i < d * ScalarBits
            THEN U32Bit(u((i % d) + 1), i \div d)
            ELSE 0]

\* decode: the inverse de-interleaving
ArrayFromMorton(k, d, m) ==
    [i \in 1..d |->
        LET bit == [j \in 0..(ScalarBits - 1) |-> m[j * d + (i - 1)]]
            u == <<LimbFromBits(bit, 16, 16), LimbFromBits(bit, 0, 16)>>
        IN  IF k = "i32" THEN UnbiasI32(u) ELSE u]

\* $vec::to_array and $vec::from([$scalar; $dim])
to_array(t, v) == IF Dim(t) = 2 THEN <<v.x, v.y>> ELSE <<v.x, v.y, v.z>>

from_array(t, arr) ==
    IF Dim(t) = 2
    THEN [x |-> arr[1], y |-> arr[2]]
    ELSE [x |-> arr[1], y |-> arr[2], z |-> arr[3]]

\* mutant: the array read back to front
VecFromMorton_Reversed(t, m) ==
    LET arr == ArrayFromMorton(Kind(t), Dim(t), m)
    IN  from_array(t, [i \in 1..Dim(t) |-> arr[Dim(t) + 1 - i]])

\* impl From<$morton> for $vec
VecFromMorton(t, m) == from_array(t, ArrayFromMorton(Kind(t), Dim(t), m))

\* impl From<$vec> for $morton
MortonFromVec(t, v) == MortonFromArray(Kind(t), to_array(t, v))

InitMorton ==
    /\ ty \in IntTypes
    /\ a \in Vectors(ty)
    /\ b = a
    /\ arg = NoArg
    /\ op = "init"
    /\ out = "none"

CallMortonFrom ==
    /\ op = "init"
    /\ ty \in IntTypes
    /\ op' = "morton_from_vec"
    /\ out' = MortonFromVec(ty, a)
    /\ UNCHANGED <<ty, a, b, arg>>

\* the code just built is converted back
CallVecFrom ==
    /\ op = "morton_from_vec"
    /\ op' = "vec_from_morton"
    /\ out' = VecFromMorton(ty, out)
    /\ UNCHANGED <<ty, a, b, arg>>

NextMorton == CallMortonFrom \/ CallVecFrom

SpecMorton == InitMorton /\ [][NextMorton]_vars

---------------------------------------------------------------------------
(* All calls together *)

Init == InitPair \/ InitFold \/ InitCast \/ InitMorton

Next == NextOrd \/ NextLattice \/ NextFold \/ NextCast \/ NextMorton

Spec == Init /\ [][Next]_vars

===========================================================================
